---- MODULE Spec2Model ----
(***************************************************************************)
(* Model of zwd-admin: the invitation API (src/invitation_api.py) and the  *)
(* Streamlit dashboard script (src/main.py).                               *)
(*                                                                         *)
(* One behaviour of the model is one run: either one execution of the      *)
(* dashboard script (the two startup fetches, then the handler of the      *)
(* widget whose click triggered the run), or one call of an entry point    *)
(* of invitation_api (its main(), or bulk_invite called as a library       *)
(* function).  Every remote call is one step whose outcome (answer or      *)
(* exception) is chosen by the provider.                                   *)
(***************************************************************************)
EXTENDS Integers, Sequences, FiniteSets, TLC

\* ------------------------------------------------------------------ bounds
MaxItems == 3
MaxUsers == 2
MaxPrompts == 3
MaxLines == 2

\* ----------------------------------------------------------------- strings
\* A Python str is a sequence of one-character strings, so that str.strip()
\* is computed and not assumed.
Whitespace == {" "}

RECURSIVE lstrip(_)
lstrip(s) ==
    IF s = <<>> THEN <<>>
    ELSE IF Head(s) \in Whitespace THEN lstrip(Tail(s)) ELSE s

RECURSIVE rstrip(_)
rstrip(s) ==
    IF s = <<>> THEN <<>>
    ELSE IF s[Len(s)] \in Whitespace THEN rstrip(SubSeq(s, 1, Len(s) - 1)) ELSE s

strip(s) == rstrip(lstrip(s))

\* Python truthiness of a str: the empty string is falsy.
Truthy(s) == s /= <<>>

\* ------------------------------------------------------------ role mapping
ROLE_MAPPING == [c \in {0, 1, 2} |->
                    CASE c = 0 -> "doctor" [] c = 1 -> "physio" [] c = 2 -> "nurse"]

get_role_name(role) ==
    IF role \in DOMAIN ROLE_MAPPING THEN ROLE_MAPPING[role]
    ELSE "role_" \o ToString(role)

\* ------------------------------------------------------------ input spaces
\* Strings an operator or a caller can submit as an email: empty, blank,
\* plain, padded, and one differing from a directory email only in case.
EmailTexts == { <<>>, <<" ">>, <<"a">>, <<" ", "b">> }
SingleEmails == { <<>>, <<"a">>, <<"A">>, <<"c">> }
DirectoryEmails == { <<"a">>, <<"b">> }
RoleCodes == {0, 1, 2}

\* An element of bulk_invite's email_list.  shape is what the isinstance
\* tests of the loop see: a 2-tuple, a dict, or anything else (a str).  For
\* a dict, hasEmail/hasRole say whether the key is present.
TupleItems == [shape : {"tuple"}, email : {<<>>, <<" ">>, <<"a">>}, hasEmail : {TRUE},
               role : {1}, hasRole : {TRUE}]
              \cup [shape : {"tuple"}, email : {<<" ", "b">>}, hasEmail : {TRUE},
                    role : {2}, hasRole : {TRUE}]
DictItems == [shape : {"dict"}, email : {<<" ">>}, hasEmail : {TRUE},
              role : {0}, hasRole : {FALSE}]
             \cup [shape : {"dict"}, email : {<<"c">>}, hasEmail : {TRUE},
                   role : {2}, hasRole : {TRUE}]
             \cup [shape : {"dict"}, email : {<<>>}, hasEmail : {FALSE},
                   role : {2}, hasRole : {TRUE}]
OtherItems == [shape : {"other"}, email : EmailTexts, hasEmail : {TRUE},
               role : {0}, hasRole : {FALSE}]
Items == TupleItems \cup DictItems \cup OtherItems

SeqsUpTo(S, n) == UNION { [1..k -> S] : k \in 0..n }

\* The provider's user store: users with distinct ids, in listing order.
Directories ==
    { [i \in 1..Len(es) |-> [id |-> i, email |-> es[i]]] :
        es \in SeqsUpTo(DirectoryEmails, MaxUsers) }

\* Outcome of one remote call: the provider answers, or the call raises.
Outcomes == {"ok", "raise"}
\* list_users: the answer carries a users attribute, or lacks it, or the call raises.
ListOutcomes == {"ok", "no_users_attr", "raise"}

\* ------------------------------------------------------------------- state
VARIABLES
    flow,           \* the entry point of this run (the widget clicked, or an API call)
    pc,             \* position of the single flow of control
    escaped,        \* an exception of a remote call left the adapter that made it
    directory,      \* the auth provider's user store, in listing order
    client_arg,     \* the supabase_client argument is a client (not None)
    env_ok,         \* SUPABASE_URL and SUPABASE_KEY are set in the environment
    calls,          \* history: remote directory calls and sleeps, in issue order
    attempts,       \* history: number of times send_invitation was entered
    email,          \* the email the handler works on (single_email, delete_email)
    role,           \* the role the handler invites with (single_role)
    users,          \* delete_user_by_email: the listing list_all_users returned
    list_out,       \* history: outcome of the list call of delete_user_by_email
    target,         \* delete_user_by_email: id of the user found by the scan
    delete_result,  \* value returned by delete_user_by_email
    invite_result,  \* value returned by send_invitation to a single-invite caller
    email_list,     \* bulk_invite: its email_list argument
    default_role,   \* bulk_invite: its default_role argument
    idx,            \* bulk_invite: index of the next item of the for loop
    results,        \* bulk_invite: the results list
    bulk_result,    \* value returned by bulk_invite
    bulk_method,    \* the input method radio of the bulk tab: "text" or "csv"
    bulk_text,      \* content of the bulk text area (bulk_emails_text / bulk_emails_csv)
    delete_results, \* the delete_results list of the bulk delete-then-invite handler
    didx,           \* index of the item the bulk delete loop works on
    prompts,        \* rows returned by fetch_prompts
    prompts_by_role,\* the dict of lines 166-169, as its items in insertion order
    selected_transcript, \* text of the selected transcript; "none" when no
                    \* session or transcript is there to select
    legs,           \* the tasks of run_parallel_generation, in creation order
    reports,        \* the list asyncio.gather returned
    displayed,      \* the reports written to the page
    report,         \* value returned by generate_report_with_gpt4o
    completion_out  \* history: outcome of the request of generate_report_with_gpt4o

inviteVars == <<email, role, users, list_out, target, delete_result, invite_result>>
bulkUi == <<bulk_method, bulk_text, delete_results, didx>>
bulkVars == <<email_list, default_role, idx, results, bulk_result, bulkUi>>
dirVars == <<directory, calls, attempts>>
reportVars == <<prompts, prompts_by_role, selected_transcript, legs, reports,
                displayed, report, completion_out>>
vars == <<flow, pc, escaped, client_arg, env_ok, dirVars, inviteVars, bulkVars,
          reportVars>>

\* Values of a result variable before the function has returned.
NoResult == [success |-> FALSE, message |-> "none"]
NoBulkResult == [success |-> FALSE, message |-> "none", results |-> <<>>,
                 hasSummary |-> FALSE,
                 summary |-> [successful |-> 0, failed |-> 0, total |-> 0]]

\* One entry of the history of directory calls.
Call(op, e, r, id) == [op |-> op, email |-> e, role |-> r, id |-> id]

\* ----------------------------------------------------- invitation_api.py
\* get_supabase_client(): None when the environment lacks the url or the key.
get_supabase_client == env_ok

\* "if not supabase_client: supabase_client = get_supabase_client()", then
\* "if not supabase_client: return {...}": TRUE when a client is at hand.
ClientAvailable == client_arg \/ get_supabase_client

\* list_all_users: response.users when the answer has that attribute, [] when it
\* has not, [] on any exception.
list_all_users(out) == IF out = "ok" THEN directory ELSE <<>>

\* Mutants of the scan: a comparison that ignores case, and a scan that keeps
\* the last match instead of returning on the first.
Lower(str) == [i \in 1..Len(str) |-> IF str[i] = "A" THEN "a" ELSE str[i]]

FirstMatchIgnoringCase(listing, e) ==
    LET hits == { i \in 1..Len(listing) : Lower(listing[i].email) = Lower(e) }
    IN IF hits = {} THEN 0 ELSE CHOOSE i \in hits : \A j \in hits : i <= j

LastMatch(listing, e) ==
    LET hits == { i \in 1..Len(listing) : listing[i].email = e }
    IN IF hits = {} THEN 0 ELSE CHOOSE i \in hits : \A j \in hits : i >= j

\* The scan of delete_user_by_email: index of the first user of the listing
\* whose email equals the argument exactly, 0 when there is none.
FirstMatch(listing, e) ==
    LET hits == { i \in 1..Len(listing) : listing[i].email = e }
    IN IF hits = {} THEN 0 ELSE CHOOSE i \in hits : \A j \in hits : i <= j

\* The provider's delete_user(id): the user with that id leaves the store.
RemoveUser(dir, id) == SelectSeq(dir, LAMBDA u : u.id /= id)

\* Mutant of the sequencing: the invite is gated on a successful delete.
AfterDeleteGatedOnSuccess ==
    CASE flow \in {"delete_then_invite", "cli_main"} ->
            IF delete_result'.success THEN "invite_enter" ELSE "done"
      [] OTHER -> "done"

\* Where control goes when delete_user_by_email returns to its caller.
AfterDelete ==
    CASE flow = "delete_user" -> "done"
      [] flow = "delete_then_invite" -> "invite_enter"
      [] flow = "cli_main" -> "invite_enter"
      [] flow = "bulk_delete_then_invite" -> "bulk_delete_append"
      [] OTHER -> "done"

\* delete_user_by_email, entry: the client checks of lines 37-41.
delete_enter ==
    /\ pc = "delete_enter"
    /\ IF ClientAvailable
       THEN /\ pc' = "delete_list"
            /\ UNCHANGED delete_result
       ELSE /\ delete_result' = [success |-> FALSE, message |-> "init_failed"]
            /\ pc' = AfterDelete
    /\ UNCHANGED <<flow, escaped, client_arg, env_ok, dirVars, email, role, users, list_out, target,
                   invite_result, bulkVars, reportVars>>

\* Mutant of delete_list: a failed listing is reported as such instead of
\* being taken for an empty directory.
delete_list_reporting_failure ==
    /\ pc = "delete_list"
    /\ \E out \in ListOutcomes :
         LET listing == list_all_users(out)
             hit == FirstMatch(listing, email)
         IN /\ calls' = Append(calls, Call("list", <<>>, 0, 0))
            /\ users' = listing
            /\ list_out' = out
            /\ IF hit = 0
               THEN /\ delete_result' =
                         [success |-> FALSE,
                          message |-> IF out = "raise" THEN "list_failed" ELSE "not_found"]
                    /\ pc' = AfterDelete
                    /\ UNCHANGED target
               ELSE /\ target' = listing[hit].id
                    /\ pc' = "delete_call"
                    /\ UNCHANGED delete_result
    /\ UNCHANGED <<flow, escaped, client_arg, env_ok, directory, attempts, email, role,
                   invite_result, bulkVars, reportVars>>

\* delete_user_by_email, lines 45-56: list the users and scan them.
delete_list ==
    /\ pc = "delete_list"
    /\ \E out \in ListOutcomes :
         LET listing == list_all_users(out)
             hit == FirstMatch(listing, email)
         IN /\ calls' = Append(calls, Call("list", <<>>, 0, 0))
            /\ users' = listing
            /\ list_out' = out
            /\ IF hit = 0
               THEN /\ delete_result' = [success |-> FALSE, message |-> "not_found"]
                    /\ pc' = AfterDelete
                    /\ UNCHANGED target
               ELSE /\ target' = listing[hit].id
                    /\ pc' = "delete_call"
                    /\ UNCHANGED delete_result
    /\ UNCHANGED <<flow, escaped, client_arg, env_ok, directory, attempts, email, role,
                   invite_result, bulkVars, reportVars>>

\* Mutant of delete_call: the success result is returned at once, without
\* the pause.
delete_call_without_pause ==
    /\ pc = "delete_call"
    /\ calls' = Append(calls, Call("delete", email, 0, target))
    /\ \E out \in Outcomes :
         IF out = "ok"
         THEN /\ directory' = RemoveUser(directory, target)
              /\ delete_result' = [success |-> TRUE, message |-> "deleted"]
              /\ pc' = AfterDelete
         ELSE /\ delete_result' = [success |-> FALSE, message |-> "delete_error"]
              /\ pc' = AfterDelete
              /\ UNCHANGED directory
    /\ UNCHANGED <<flow, escaped, client_arg, env_ok, attempts, email, role, users, list_out, target,
                   invite_result, bulkVars, reportVars>>

\* delete_user_by_email, line 51 and the handler of lines 58-61.
delete_call ==
    /\ pc = "delete_call"
    /\ calls' = Append(calls, Call("delete", email, 0, target))
    /\ \E out \in Outcomes :
         IF out = "ok"
         THEN /\ directory' = RemoveUser(directory, target)
              /\ pc' = "delete_sleep"
              /\ UNCHANGED delete_result
         ELSE /\ delete_result' = [success |-> FALSE, message |-> "delete_error"]
              /\ pc' = AfterDelete
              /\ UNCHANGED directory
    /\ UNCHANGED <<flow, escaped, client_arg, env_ok, attempts, email, role, users, list_out, target,
                   invite_result, bulkVars, reportVars>>

\* delete_user_by_email, lines 53-54: time.sleep(1), then the success result.
delete_sleep ==
    /\ pc = "delete_sleep"
    /\ calls' = Append(calls, Call("sleep", <<>>, 0, 0))
    /\ delete_result' = [success |-> TRUE, message |-> "deleted"]
    /\ pc' = AfterDelete
    /\ UNCHANGED <<flow, escaped, client_arg, env_ok, directory, attempts, email, role,
                   users, list_out, target, invite_result, bulkVars, reportVars>>

\* The result send_invitation builds from the outcome of invite_user_by_email.
InviteResult(out) ==
    IF out = "ok" THEN [success |-> TRUE, message |-> "sent"]
    ELSE [success |-> FALSE, message |-> "invite_error"]

\* send_invitation called by a single-invite caller, entry: lines 65-69.
invite_enter ==
    /\ pc = "invite_enter"
    /\ attempts' = attempts + 1
    /\ IF ClientAvailable
       THEN /\ pc' = "invite_call"
            /\ UNCHANGED invite_result
       ELSE /\ invite_result' = [success |-> FALSE, message |-> "init_failed"]
            /\ pc' = "done"
    /\ UNCHANGED <<flow, escaped, client_arg, env_ok, directory, calls, email, role,
                   users, list_out, target, delete_result, bulkVars, reportVars>>

\* send_invitation, lines 71-85: the remote call and its except clause.
invite_call ==
    /\ pc = "invite_call"
    /\ calls' = Append(calls, Call("invite", email, role, 0))
    /\ \E out \in Outcomes : invite_result' = InviteResult(out)
    /\ pc' = "done"
    /\ UNCHANGED <<flow, escaped, client_arg, env_ok, directory, attempts, email, role,
                   users, list_out, target, delete_result, bulkVars, reportVars>>

\* bulk_invite, lines 98-104: the email and the role of one item.
ItemEmail(item) ==
    CASE item.shape = "tuple" -> item.email
      [] item.shape = "dict" -> IF item.hasEmail THEN item.email ELSE <<>>
      [] OTHER -> strip(item.email)

ItemRole(item, dflt) ==
    CASE item.shape = "tuple" -> item.role
      [] item.shape = "dict" -> IF item.hasRole THEN item.role ELSE dflt
      [] OTHER -> dflt

\* bulk_invite, line 106: "if email:".
ShouldProcess(e) == Truthy(e)

\* bulk_invite, line 108: {"email": email, "role": role, **result}.
ResultEntry(e, r, res) ==
    [email |-> e, role |-> r, success |-> res.success, message |-> res.message]

\* Mutant of the summary: the count of successes loses its condition.
SummaryCountsEveryResult(rs) ==
    [successful |-> Len(rs), failed |-> 0, total |-> Len(rs)]

\* bulk_invite, lines 111-112 and 121: the summary of a results list.
Summary(rs) ==
    LET successful == Cardinality({ i \in 1..Len(rs) : rs[i].success })
        failed == Len(rs) - successful
    IN [successful |-> successful, failed |-> failed, total |-> Len(rs)]

\* bulk_invite, entry: lines 89-95.
bulk_enter ==
    /\ pc = "bulk_enter"
    /\ IF ClientAvailable
       THEN /\ pc' = "bulk_loop"
            /\ results' = <<>>
            /\ idx' = 1
            /\ UNCHANGED bulk_result
       ELSE /\ bulk_result' = [NoBulkResult EXCEPT !.message = "init_failed"]
            /\ pc' = "done"
            /\ UNCHANGED <<results, idx>>
    /\ UNCHANGED <<flow, escaped, client_arg, env_ok, dirVars, inviteVars,
                   email_list, default_role, bulkUi, reportVars>>

\* bulk_invite, one iteration of the for loop on an item whose email is falsy.
bulk_skip ==
    /\ pc = "bulk_loop"
    /\ idx <= Len(email_list)
    /\ ~ShouldProcess(ItemEmail(email_list[idx]))
    /\ idx' = idx + 1
    /\ UNCHANGED <<flow, pc, escaped, client_arg, env_ok, dirVars, inviteVars,
                   email_list, default_role, results, bulk_result, bulkUi, reportVars>>

\* bulk_invite, one iteration of the for loop that calls send_invitation
\* (lines 107-108; send_invitation is lines 63-85 with a client at hand).
bulk_send_one ==
    /\ pc = "bulk_loop"
    /\ idx <= Len(email_list)
    /\ LET e == ItemEmail(email_list[idx])
           r == ItemRole(email_list[idx], default_role)
       IN /\ ShouldProcess(e)
          /\ attempts' = attempts + 1
          /\ calls' = Append(calls, Call("invite", e, r, 0))
          /\ \E out \in Outcomes :
               results' = Append(results, ResultEntry(e, r, InviteResult(out)))
    /\ idx' = idx + 1
    /\ UNCHANGED <<flow, pc, escaped, client_arg, env_ok, directory, inviteVars,
                   email_list, default_role, bulk_result, bulkUi, reportVars>>

\* bulk_invite, lines 110-122: the summary and the return value.
bulk_return ==
    /\ pc = "bulk_loop"
    /\ idx > Len(email_list)
    /\ bulk_result' = [success |-> Summary(results).failed = 0,
                       message |-> "summary",
                       results |-> results,
                       hasSummary |-> TRUE,
                       summary |-> Summary(results)]
    /\ pc' = "done"
    /\ UNCHANGED <<flow, escaped, client_arg, env_ok, dirVars, inviteVars,
                   email_list, default_role, idx, results, bulkUi, reportVars>>

\* ---------------------------------------------------------------- main.py
\* "Send Invitation" button, lines 356-372.
button_send_invitation ==
    /\ pc = "handler"
    /\ flow = "single_invite"
    /\ pc' = IF Truthy(email) THEN "invite_enter" ELSE "done"
    /\ UNCHANGED <<flow, escaped, client_arg, env_ok, dirVars, inviteVars, bulkVars, reportVars>>

\* "Delete User First, Then Invite" button, lines 375-399.  The invite of
\* lines 387-392 follows the delete unconditionally (see AfterDelete).
button_delete_then_invite ==
    /\ pc = "handler"
    /\ flow = "delete_then_invite"
    /\ pc' = IF Truthy(email) THEN "delete_enter" ELSE "done"
    /\ UNCHANGED <<flow, escaped, client_arg, env_ok, dirVars, inviteVars, bulkVars, reportVars>>

\* "Delete User" button, lines 578-588.
button_delete_user ==
    /\ pc = "handler"
    /\ flow = "delete_user"
    /\ pc' = IF Truthy(email) THEN "delete_enter" ELSE "done"
    /\ UNCHANGED <<flow, escaped, client_arg, env_ok, dirVars, inviteVars, bulkVars, reportVars>>

\* "List All Users" button, lines 552-571.
button_list_users ==
    /\ pc = "handler"
    /\ flow = "list_users"
    /\ calls' = Append(calls, Call("list", <<>>, 0, 0))
    /\ pc' = "done"
    /\ UNCHANGED <<flow, escaped, client_arg, env_ok, directory, attempts, inviteVars,
                   bulkVars, reportVars>>

\* str.split(sep) for a one-character separator.
RECURSIVE split(_, _)
split(s, sep) ==
    LET at == { i \in 1..Len(s) : s[i] = sep }
    IN IF at = {} THEN <<s>>
       ELSE LET k == CHOOSE i \in at : \A j \in at : i <= j
            IN <<SubSeq(s, 1, k - 1)>> \o split(SubSeq(s, k + 1, Len(s)), sep)

\* int(s) of line 448 for a stripped field: a number when s is a non-empty
\* run of decimal digits, ValueError otherwise.
DigitValue == [d \in {"0", "1", "2", "3", "4", "5", "6", "7", "8", "9"} |->
                 CASE d = "0" -> 0 [] d = "1" -> 1 [] d = "2" -> 2 [] d = "3" -> 3
                   [] d = "4" -> 4 [] d = "5" -> 5 [] d = "6" -> 6 [] d = "7" -> 7
                   [] d = "8" -> 8 [] d = "9" -> 9]

IsInt(s) == s /= <<>> /\ \A i \in 1..Len(s) : s[i] \in DOMAIN DigitValue

RECURSIVE int(_)
int(s) ==
    IF s = <<>> THEN 0
    ELSE 10 * int(SubSeq(s, 1, Len(s) - 1)) + DigitValue[s[Len(s)]]

\* An element of email_list as the bulk tab builds it: a str, or an
\* (email, role) tuple.
StrItem(e) == [shape |-> "other", email |-> e, hasEmail |-> TRUE,
               role |-> 0, hasRole |-> FALSE]
TupleItem(e, r) == [shape |-> "tuple", email |-> e, hasEmail |-> TRUE,
                    role |-> r, hasRole |-> TRUE]

\* Line 424: [email.strip() for email in text.split('\n') if email.strip()].
RECURSIVE TextAreaItems(_)
TextAreaItems(lines) ==
    IF lines = <<>> THEN <<>>
    ELSE (IF Truthy(strip(Head(lines))) THEN <<StrItem(strip(Head(lines)))>> ELSE <<>>)
         \o TextAreaItems(Tail(lines))

\* Lines 443-455: what one line of the CSV text adds to email_list.
CsvLineItems(raw) ==
    LET line == strip(raw)
        parts == split(line, ",")
    IN IF ~Truthy(line) THEN <<>>
       ELSE IF Len(parts) >= 2
            THEN LET field == strip(parts[2])
                 IN <<TupleItem(strip(parts[1]), IF IsInt(field) THEN int(field) ELSE 0)>>
            ELSE <<TupleItem(strip(parts[1]), 0)>>

RECURSIVE CsvItems(_)
CsvItems(lines) ==
    IF lines = <<>> THEN <<>>
    ELSE CsvLineItems(Head(lines)) \o CsvItems(Tail(lines))

\* Lines 410-463: the email_list the script builds from the text area.  With
\* an empty text area the name is never bound, which the handlers treat as
\* an empty list ('email_list' in locals() and email_list).
ParsedEmailList(method, text) ==
    IF ~Truthy(text) THEN <<>>
    ELSE IF method = "text" THEN TextAreaItems(split(text, "\n"))
    ELSE CsvItems(split(text, "\n"))

\* The default_role the bulk handlers pass to bulk_invite (lines 477-490
\* and 516-529): the selectbox value for the text method, 0 for CSV.
BulkDefaultRole == IF bulk_method = "text" THEN default_role ELSE 0

\* "Send All Invitations" button, lines 474-502.
button_send_all ==
    /\ pc = "handler"
    /\ flow = "bulk_send"
    /\ email_list' = ParsedEmailList(bulk_method, bulk_text)
    /\ default_role' = BulkDefaultRole
    /\ pc' = IF email_list' /= <<>> THEN "bulk_enter" ELSE "done"
    /\ UNCHANGED <<flow, escaped, client_arg, env_ok, dirVars, inviteVars,
                   idx, results, bulk_result, bulkUi, reportVars>>

\* "Delete All Users First, Then Invite" button, lines 505-509: the guard
\* and the empty delete_results list.
button_bulk_delete_then_invite ==
    /\ pc = "handler"
    /\ flow = "bulk_delete_then_invite"
    /\ email_list' = ParsedEmailList(bulk_method, bulk_text)
    /\ default_role' = BulkDefaultRole
    /\ delete_results' = <<>>
    /\ didx' = 1
    /\ pc' = IF email_list' /= <<>> THEN "bulk_delete_loop" ELSE "done"
    /\ UNCHANGED <<flow, escaped, client_arg, env_ok, dirVars, inviteVars,
                   idx, results, bulk_result, bulk_method, bulk_text, reportVars>>

\* Lines 510-512: email = item[0] if isinstance(item, tuple) else item, then
\* the call of delete_user_by_email(email, supabase).
bulk_delete_next ==
    /\ pc = "bulk_delete_loop"
    /\ didx <= Len(email_list)
    /\ email' = email_list[didx].email
    /\ pc' = "delete_enter"
    /\ UNCHANGED <<flow, escaped, client_arg, env_ok, dirVars, role, users, list_out,
                   target, delete_result, invite_result, bulkVars, reportVars>>

\* Mutant of the bulk delete loop: the invitations start after the first
\* delete.
AfterBulkDeleteEager(i) == "bulk_enter"

\* Where the bulk handler goes once the delete of item i has returned: to
\* the next item, or after the last one to bulk_invite (lines 516-529).
AfterBulkDelete(i) ==
    IF i < Len(email_list) THEN "bulk_delete_loop" ELSE "bulk_enter"

\* Line 513: delete_results.append({"email": email, **delete_result}).
bulk_delete_append ==
    /\ pc = "bulk_delete_append"
    /\ delete_results' = Append(delete_results,
                                [email |-> email, success |-> delete_result.success,
                                 message |-> delete_result.message])
    /\ didx' = didx + 1
    /\ pc' = AfterBulkDelete(didx)
    /\ UNCHANGED <<flow, escaped, client_arg, env_ok, dirVars, inviteVars,
                   email_list, default_role, idx, results, bulk_result,
                   bulk_method, bulk_text, reportVars>>

\* UNCHANGED for the steps of the dashboard that touch no invitation state.
invitationState == <<client_arg, env_ok, dirVars, inviteVars, bulkVars>>

\* The client generate_report_async builds at line 78 is OpenAI(...), the
\* blocking client: its create() holds the thread until the provider has
\* answered, and returns a ChatCompletion, which is no awaitable.
ClientIsAsync == FALSE

\* Outcome of one completion request: a completion with choices, a
\* completion whose choices list is empty, or an exception.
CompletionOutcomes == {"ok", "malformed", "raise"}

GeneratedText == [kind |-> "text", cause |-> "none"]
ErrorText(cause) == [kind |-> "error", cause |-> cause]
NoReport == [kind |-> "none", cause |-> "none"]

\* "Error generating report: ..." as opposed to the provider's text.
IsErrorText(r) == r.kind = "error"

\* Mutant of generate_report_with_gpt4o: the indexing of the response is left
\* outside the try, so an empty choices list yields no returned value.
generate_report_unguarded(out) ==
    CASE out = "ok" -> GeneratedText
      [] out = "malformed" -> NoReport
      [] OTHER -> ErrorText("provider")

\* generate_report_with_gpt4o, lines 55-71: response.choices[0].message.content,
\* or the error string of the except clause (an empty choices list raises
\* IndexError inside the try).
generate_report_with_gpt4o(out) ==
    CASE out = "ok" -> GeneratedText
      [] out = "malformed" -> ErrorText("malformed")
      [] OTHER -> ErrorText("provider")

\* generate_report_async, lines 76-100, once create() has come back with
\* outcome out.  "await" of a value that is no awaitable raises TypeError,
\* which the except clause turns into the error string.
generate_report_async(out) ==
    CASE out = "raise" -> ErrorText("provider")
      [] ~ClientIsAsync -> ErrorText("not_awaitable")
      [] out = "malformed" -> ErrorText("malformed")
      [] OTHER -> GeneratedText

\* Lines 166-169: prompts_by_role[get_role_name(prompt["role"])] = prompt, for
\* each row in turn.  A dict keeps a key at the place of its first insertion.
RECURSIVE DictItemsOf(_)
DictItemsOf(rows) ==
    IF rows = <<>> THEN <<>>
    ELSE LET before == DictItemsOf(SubSeq(rows, 1, Len(rows) - 1))
             row == rows[Len(rows)]
             key == get_role_name(row.role)
             at == { i \in 1..Len(before) : before[i].role_name = key }
         IN IF at = {}
            THEN Append(before, [role_name |-> key, prompt |-> row])
            ELSE [i \in 1..Len(before) |->
                    IF i \in at THEN [role_name |-> key, prompt |-> row]
                    ELSE before[i]]

\* Role codes of the rows of soap_prompts: the three mapped codes stand for
\* themselves, 5 for a code outside ROLE_MAPPING.
PromptRoleCodes == {0, 1, 5}
PromptRows ==
    { [i \in 1..Len(rs) |-> [id |-> i, role |-> rs[i]]] :
        rs \in SeqsUpTo(PromptRoleCodes, MaxPrompts) }

\* The handlers that read the prompts; the others run on one fixed table.
ReportFlows == {"parallel_all", "individual_report", "save_prompt"}
PromptChoices == IF flow \in ReportFlows THEN PromptRows
                 ELSE { [i \in 1..2 |-> [id |-> i, role |-> i - 1]] }

\* fetch_prompts, lines 146-148 and 162: no try around the remote call.
fetch_prompts ==
    /\ pc = "fetch_prompts"
    /\ calls' = Append(calls, Call("select_prompts", <<>>, 0, 0))
    /\ \E out \in Outcomes :
         IF out = "ok"
         THEN /\ \E rows \in PromptChoices :
                   /\ prompts' = rows
                   /\ prompts_by_role' = DictItemsOf(rows)
              /\ pc' = "fetch_sessions"
              /\ UNCHANGED escaped
         ELSE /\ escaped' = TRUE
              /\ pc' = "crashed"
              /\ UNCHANGED <<prompts, prompts_by_role>>
    /\ UNCHANGED <<flow, client_arg, env_ok, directory, attempts, inviteVars, bulkVars,
                   selected_transcript, legs, reports, displayed, report, completion_out>>

\* fetch_sessions, lines 104-127 and 163, followed by the selection of
\* lines 198-242 for the one session and transcript the operator selects: the
\* outer select may raise (then there is no session), the inner select may
\* raise (then the session has no transcript).
fetch_sessions ==
    /\ pc = "fetch_sessions"
    /\ calls' = Append(calls, Call("select_sessions", <<>>, 0, 0))
    /\ \E outer \in Outcomes, inner \in Outcomes, text \in {"none", "", "text"} :
         selected_transcript' =
            IF outer = "raise" \/ inner = "raise" THEN "none" ELSE text
    /\ pc' = "handler"
    /\ UNCHANGED <<flow, escaped, client_arg, env_ok, directory, attempts, inviteVars,
                   bulkVars, prompts, prompts_by_role, legs, reports, displayed, report, completion_out>>

\* update_prompt, lines 152-155, called by a "Save ... Prompt" button
\* (lines 189-191): no try around the remote call.
button_save_prompt ==
    /\ pc = "handler"
    /\ flow = "save_prompt"
    /\ IF prompts_by_role = <<>>
       THEN /\ pc' = "done"
            /\ UNCHANGED <<calls, escaped>>
       ELSE \E i \in 1..Len(prompts_by_role), out \in Outcomes :
              /\ calls' = Append(calls, Call("update_prompt", <<>>, 0,
                                             prompts_by_role[i].prompt.id))
              /\ escaped' = (out = "raise")
              /\ pc' = IF out = "raise" THEN "crashed" ELSE "done"
    /\ UNCHANGED <<flow, client_arg, env_ok, directory, attempts, inviteVars, bulkVars,
                   reportVars>>

\* The report buttons are rendered only below a selected session that has a
\* transcript (lines 198-223), and after st.columns(len(prompts_by_role))
\* (line 265), which raises for zero columns.
ReportButtonsRendered == selected_transcript /= "none" /\ prompts_by_role /= <<>>

\* "Generate <role> Report" button, lines 267-281.
button_individual_report ==
    /\ pc = "handler"
    /\ flow = "individual_report"
    /\ IF ReportButtonsRendered /\ selected_transcript /= ""
       THEN \E i \in 1..Len(prompts_by_role), out \in CompletionOutcomes :
              /\ calls' = Append(calls, Call("completion", <<>>, 0, i))
              /\ report' = generate_report_with_gpt4o(out)
              /\ completion_out' = out
       ELSE UNCHANGED <<calls, report, completion_out>>
    /\ pc' = "done"
    /\ UNCHANGED <<flow, escaped, client_arg, env_ok, directory, attempts, inviteVars,
                   bulkVars, prompts, prompts_by_role, selected_transcript, legs,
                   reports, displayed>>

\* "Generate All Reports in Parallel" button, lines 287-301: one coroutine
\* per item of prompts_by_role, handed to asyncio.gather in that order.
button_parallel_all ==
    /\ pc = "handler"
    /\ flow = "parallel_all"
    /\ IF ReportButtonsRendered /\ selected_transcript /= ""
       THEN /\ legs' = [i \in 1..Len(prompts_by_role) |->
                          [role |-> prompts_by_role[i].role_name,
                           state |-> "pending", out |-> "none", report |-> NoReport]]
            /\ pc' = "gather"
       ELSE /\ pc' = "done"
            /\ UNCHANGED legs
    /\ UNCHANGED <<flow, escaped, invitationState, prompts, prompts_by_role,
                   selected_transcript, reports, displayed, report, completion_out>>

\* The event loop's one thread is held by a leg that is inside a blocking call.
ThreadBlocked == ~ClientIsAsync /\ \E j \in 1..Len(legs) : legs[j].state = "inflight"

\* The event loop starts the tasks in creation order; a task runs up to its
\* request (line 82).
leg_issue(i) ==
    /\ pc = "gather"
    /\ legs[i].state = "pending"
    /\ \A j \in 1..(i - 1) : legs[j].state /= "pending"
    /\ ~ThreadBlocked
    /\ legs' = [legs EXCEPT ![i].state = "inflight"]
    /\ calls' = Append(calls, Call("completion", <<>>, 0, i))
    /\ UNCHANGED <<flow, pc, escaped, client_arg, env_ok, directory, attempts,
                   inviteVars, bulkVars, prompts, prompts_by_role, selected_transcript,
                   reports, displayed, report, completion_out>>

\* The provider answers leg i's request, and the leg runs to its return
\* (lines 95-100).
leg_resolve(i) ==
    /\ pc = "gather"
    /\ legs[i].state = "inflight"
    /\ \E out \in CompletionOutcomes :
         legs' = [legs EXCEPT ![i].state = "done", ![i].out = out,
                              ![i].report = generate_report_async(out)]
    /\ calls' = Append(calls, Call("completion_return", <<>>, 0, i))
    /\ UNCHANGED <<flow, pc, escaped, client_arg, env_ok, directory, attempts,
                   inviteVars, bulkVars, prompts, prompts_by_role, selected_transcript,
                   reports, displayed, report, completion_out>>

\* Mutant of the fan-in: a leg that ended in error text contributes no result.
gather_successful(ls) ==
    LET ok == SelectSeq(ls, LAMBDA l : ~IsErrorText(l.report))
    IN [i \in 1..Len(ok) |-> [role |-> ok[i].role, report |-> ok[i].report]]

\* asyncio.gather, line 300: the list of the legs' return values, in the order
\* of the coroutines, once every leg has returned.
gather(ls) == [i \in 1..Len(ls) |-> [role |-> ls[i].role, report |-> ls[i].report]]

gather_return ==
    /\ pc = "gather"
    /\ \A i \in 1..Len(legs) : legs[i].state = "done"
    /\ reports' = gather(legs)
    /\ pc' = "display"
    /\ UNCHANGED <<flow, escaped, invitationState, prompts, prompts_by_role,
                   selected_transcript, legs, displayed, report, completion_out>>

\* Lines 310-317: one expander per result, then the success banner.
display_reports ==
    /\ pc = "display"
    /\ displayed' = reports
    /\ pc' = "done"
    /\ UNCHANGED <<flow, escaped, invitationState, prompts, prompts_by_role,
                   selected_transcript, legs, reports, report, completion_out>>

\* ---------------------------------------------------------- specification
DashboardFlows == {"single_invite", "delete_then_invite", "delete_user", "list_users",
                   "save_prompt", "individual_report", "parallel_all"}

\* The two buttons of the bulk tab.
BulkFlows == {"bulk_send", "bulk_delete_then_invite"}

\* The store a bulk delete-then-invite run starts on: users a and b.
BulkDirectory == <<[id |-> 1, email |-> <<"a">>], [id |-> 2, email |-> <<"b">>]>>

\* Lines typed into the bulk text area: a plain email, a padded email with
\* a role field, a blank line, and a line with an empty email field and a
\* role field that is no number.
BulkLines == { <<"a">>, <<" ", "b", ",", "1">>, <<" ">>, <<",", "x">> }

RECURSIVE JoinLines(_)
JoinLines(ls) ==
    IF ls = <<>> THEN <<>>
    ELSE IF Len(ls) = 1 THEN ls[1]
    ELSE ls[1] \o <<"\n">> \o JoinLines(Tail(ls))

BulkTexts == { JoinLines(ls) : ls \in SeqsUpTo(BulkLines, MaxLines) }

\* The email invitation_api.main() works on (line 129).
CliEmail == <<"a">>

InitCommon ==
    /\ escaped = FALSE
    /\ calls = <<>>
    /\ attempts = 0
    /\ users = <<>>
    /\ list_out = "none"
    /\ target = 0
    /\ delete_result = NoResult
    /\ invite_result = NoResult
    /\ idx = 1
    /\ results = <<>>
    /\ bulk_result = NoBulkResult
    /\ delete_results = <<>>
    /\ didx = 1
    /\ prompts = <<>>
    /\ prompts_by_role = <<>>
    /\ selected_transcript = "none"
    /\ legs = <<>>
    /\ reports = <<>>
    /\ displayed = <<>>
    /\ report = NoReport
    /\ completion_out = "none"

\* A run of the dashboard script: the widget values arrive with the click.
InitDashboard ==
    /\ flow \in DashboardFlows
    /\ pc = "fetch_prompts"
    /\ client_arg = TRUE
    /\ env_ok = FALSE
    /\ directory \in (IF flow \in {"delete_then_invite", "delete_user"}
                      THEN Directories ELSE {<<>>})
    /\ email \in (IF flow \in {"single_invite", "delete_then_invite", "delete_user"}
                  THEN SingleEmails ELSE {<<>>})
    /\ role \in (IF flow \in {"single_invite", "delete_then_invite"}
                 THEN RoleCodes ELSE {0})
    /\ email_list = <<>>
    /\ default_role = 0
    /\ bulk_method = "text"
    /\ bulk_text = <<>>

\* A run of the dashboard script started by a button of the bulk tab.  Until
\* the handler calls bulk_invite, default_role holds the value of the
\* bulk_default_role selectbox, which only the text method renders.
InitDashboardBulk ==
    /\ flow \in BulkFlows
    /\ pc = "fetch_prompts"
    /\ client_arg = TRUE
    /\ env_ok = FALSE
    /\ directory = (IF flow = "bulk_delete_then_invite" THEN BulkDirectory ELSE <<>>)
    /\ email = <<>>
    /\ role = 0
    /\ email_list = <<>>
    /\ bulk_method \in {"text", "csv"}
    /\ bulk_text \in BulkTexts
    /\ default_role \in (IF bulk_method = "text" THEN {0, 2} ELSE {0})

\* invitation_api.main(), lines 124-139: no client is passed.
InitCli ==
    /\ flow = "cli_main"
    /\ pc = "delete_enter"
    /\ client_arg = FALSE
    /\ env_ok \in BOOLEAN
    /\ directory \in Directories
    /\ email = CliEmail
    /\ role = 0
    /\ email_list = <<>>
    /\ default_role = 0
    /\ bulk_method = "text"
    /\ bulk_text = <<>>

\* bulk_invite(email_list, default_role, supabase_client) called directly.
InitApiBulk ==
    /\ flow = "api_bulk_invite"
    /\ pc = "bulk_enter"
    /\ \E c \in {<<TRUE, FALSE>>, <<FALSE, TRUE>>, <<FALSE, FALSE>>} :
         client_arg = c[1] /\ env_ok = c[2]
    /\ directory = <<>>
    /\ email = <<>>
    /\ role = 0
    /\ email_list \in SeqsUpTo(Items, MaxItems)
    /\ default_role \in {0, 1}
    /\ bulk_method = "text"
    /\ bulk_text = <<>>

Init == InitCommon /\ (InitDashboard \/ InitDashboardBulk \/ InitCli \/ InitApiBulk)

Next ==
    \/ delete_enter
    \/ delete_list
    \/ delete_call
    \/ delete_sleep
    \/ invite_enter
    \/ invite_call
    \/ bulk_enter
    \/ bulk_skip
    \/ bulk_send_one
    \/ bulk_return
    \/ button_send_all
    \/ button_bulk_delete_then_invite
    \/ bulk_delete_next
    \/ bulk_delete_append
    \/ button_send_invitation
    \/ button_delete_then_invite
    \/ button_delete_user
    \/ button_list_users
    \/ fetch_prompts
    \/ fetch_sessions
    \/ button_save_prompt
    \/ button_individual_report
    \/ button_parallel_all
    \/ \E i \in 1..Len(legs) : leg_issue(i)
    \/ \E i \in 1..Len(legs) : leg_resolve(i)
    \/ gather_return
    \/ display_reports

Spec == Init /\ [][Next]_vars

\* ------------------------------------------------------------------ claims
InviteCalls == SelectSeq(calls, LAMBDA c : c.op = "invite")
DeleteCalls == SelectSeq(calls, LAMBDA c : c.op = "delete")
ListCalls == SelectSeq(calls, LAMBDA c : c.op = "list")

\* bulk_invite has returned its summary.
BulkReturned == flow = "api_bulk_invite" /\ pc = "done" /\ bulk_result.hasSummary

\* C1: the summary bulk_invite returns satisfies successful + failed = total =
\* len(results), and successful is the number of results whose success flag
\* is true.
C1_SummaryAddsUp ==
    bulk_result.hasSummary =>
        LET sm == bulk_result.summary
            rs == bulk_result.results
        IN /\ sm.successful + sm.failed = sm.total
           /\ sm.total = Len(rs)
           /\ sm.successful = Cardinality({ i \in 1..Len(rs) : rs[i].success })

C1_Witness ==
    /\ BulkReturned
    /\ bulk_result.summary.successful >= 1
    /\ bulk_result.summary.failed >= 1

\* The email an item was submitted with, and whether it is empty or blank.
SubmittedEmail(item) == IF item.hasEmail THEN item.email ELSE <<>>
Blank(item) == strip(SubmittedEmail(item)) = <<>>
NonBlankItems == SelectSeq(email_list, LAMBDA item : ~Blank(item))

\* C2: on N items of which K have an empty or blank email, bulk_invite issues
\* no invite for those K items and returns total = N - K, whatever the shape
\* of the blank item.
C2_BlankItemsSkipped ==
    BulkReturned =>
        /\ bulk_result.summary.total = Len(NonBlankItems)
        /\ \A i \in 1..Len(InviteCalls) : strip(InviteCalls[i].email) /= <<>>

\* C3: each non-blank item gets exactly one send_invitation call, in input
\* order, and the i-th result carries the i-th non-blank item's email and
\* role (its own role, or default_role when it has none).  Emails are compared
\* up to surrounding whitespace.
C3_EveryItemInOrder ==
    BulkReturned =>
        LET nb == NonBlankItems
            rs == bulk_result.results
        IN /\ attempts = Len(nb)
           /\ Len(InviteCalls) = Len(nb)
           /\ Len(rs) = Len(nb)
           /\ \A i \in 1..Len(rs) :
                i <= Len(nb) =>
                  /\ strip(rs[i].email) = strip(nb[i].email)
                  /\ rs[i].role = (IF nb[i].hasRole THEN nb[i].role ELSE default_role)
                  /\ InviteCalls[i].email = rs[i].email
                  /\ InviteCalls[i].role = rs[i].role

\* Delete-then-invite is running on an email (the button's "if single_email",
\* or main()).
DeleteThenInviteRuns ==
    /\ flow \in {"delete_then_invite", "cli_main"}
    /\ Truthy(email)
    /\ pc \notin {"fetch_prompts", "fetch_sessions", "crashed"}

\* C4: delete-then-invite attempts the invite exactly once, and only after
\* delete_user_by_email has returned, whatever that step's result.
C4_InviteOnceAfterDelete ==
    DeleteThenInviteRuns =>
        /\ attempts <= 1
        /\ attempts = 1 => delete_result /= NoResult
        /\ pc = "done" => attempts = 1
        /\ \A i \in 1..Len(calls) : calls[i].op = "invite" => i = Len(calls)

C4_Witness ==
    /\ flow = "delete_then_invite"
    /\ pc = "done"
    /\ delete_result.message = "delete_error"
    /\ attempts = 1
    /\ Len(InviteCalls) = 1

\* delete_user_by_email has listed the directory.
DeleteFlows == {"delete_user", "delete_then_invite", "cli_main"}
Listed == flow \in DeleteFlows /\ ListCalls /= <<>>

\* C5: when the email matches no user of the listing, delete_user_by_email
\* returns success = false with the not-found message and issues no delete
\* call.
C5_NotFoundNoDelete ==
    (Listed /\ \A i \in 1..Len(users) : users[i].email /= email) =>
        /\ delete_result = [success |-> FALSE, message |-> "not_found"]
        /\ DeleteCalls = <<>>
        /\ directory = users \/ users = <<>>

C5_Witness ==
    /\ Listed
    /\ Len(users) = 2
    /\ \A i \in 1..Len(users) : users[i].email /= email
    /\ delete_result.message = "not_found"

\* C6: when several users of the listing have exactly the given email,
\* delete_user_by_email issues exactly one delete call, for the first of them
\* in listing order, and every other user stays in the directory.
C6_FirstDuplicateOnly ==
    LET same == { i \in 1..Len(users) : users[i].email = email }
    IN (Listed /\ Cardinality(same) >= 2) =>
         LET first == CHOOSE i \in same : \A j \in same : i <= j
         IN /\ Len(DeleteCalls) <= 1
            /\ \A k \in 1..Len(DeleteCalls) : DeleteCalls[k].id = users[first].id
            /\ delete_result /= NoResult => Len(DeleteCalls) = 1
            /\ \A i \in 1..Len(users) :
                 i /= first => \E k \in 1..Len(directory) : directory[k] = users[i]
            /\ delete_result.success =>
                 directory = SelectSeq(users, LAMBDA u : u /= users[first])

C6_Witness ==
    /\ Listed
    /\ Cardinality({ i \in 1..Len(users) : users[i].email = email }) >= 2
    /\ delete_result.success
    /\ \E k \in 1..Len(directory) : directory[k].email = email

\* The fan-out has returned its results to the button handler.
FanOutReturned == flow = "parallel_all" /\ pc \in {"display", "done"} /\ legs /= <<>>
ConfiguredLabels == { get_role_name(prompts[i].role) : i \in 1..Len(prompts) }

\* C7: the fan-out over R configured roles returns exactly R results, each
\* tagged with a distinct role label of the configured set, whatever legs fail.
C7_OneResultPerRole ==
    FanOutReturned =>
        /\ Len(reports) = Cardinality(ConfiguredLabels)
        /\ \A i \in 1..Len(reports) : reports[i].role \in ConfiguredLabels
        /\ \A i, j \in 1..Len(reports) : reports[i].role = reports[j].role => i = j

C7_Witness ==
    /\ FanOutReturned
    /\ Len(reports) = 3
    /\ \A i \in 1..Len(legs) : legs[i].out = "raise"

\* C8: no result is surfaced until every leg has resolved, and the failing
\* leg alone carries error text: a leg's report is error text exactly when its
\* own request failed.
C8_FailureStaysInItsLeg ==
    /\ displayed /= <<>> => \A i \in 1..Len(legs) : legs[i].state = "done"
    /\ \A i \in 1..Len(legs) :
         legs[i].state = "done" => (IsErrorText(legs[i].report) <=> legs[i].out /= "ok")

\* C9: the requests are issued concurrently: while one leg's request is
\* outstanding and another leg has not issued its own, that leg can issue it.
C9_SecondRequestCanOverlap ==
    (/\ pc = "gather"
     /\ \E i \in 1..Len(legs) : legs[i].state = "inflight"
     /\ \E j \in 1..Len(legs) : legs[j].state = "pending")
    => ENABLED (\E j \in 1..Len(legs) : leg_issue(j))

\* C10: no adapter lets an exception of a remote call escape to its caller.
C10_NoExceptionEscapes == ~escaped

\* C11: generate_report_with_gpt4o never raises: on any failure of the
\* completion call (an exception, or a response without choices) it returns
\* text beginning with the error marker, and on success it returns the
\* provider's generated text.
C11_ReportOrErrorText ==
    (flow = "individual_report" /\ completion_out /= "none") =>
        /\ ~escaped
        /\ pc = "done"
        /\ completion_out = "ok" => report = GeneratedText
        /\ completion_out /= "ok" => IsErrorText(report)

C11_Witness ==
    /\ flow = "individual_report"
    /\ completion_out = "malformed"
    /\ IsErrorText(report)

\* C12: every call of bulk_invite returns a result that carries the summary
\* {successful, failed, total}, also when every item fails and when no client
\* is available.
C12_SummaryAlwaysReturned ==
    (flow = "api_bulk_invite" /\ pc = "done") => bulk_result.hasSummary

\* C14: a leg whose request the provider answers successfully returns the
\* provider's generated text; error text appears only in the result of a leg
\* whose request failed.
C14_SuccessfulLegReturnsText ==
    \A i \in 1..Len(legs) :
        legs[i].state = "done" =>
            /\ legs[i].out = "ok" => legs[i].report = GeneratedText
            /\ IsErrorText(legs[i].report) => legs[i].out /= "ok"

\* The provider delete issued as call k succeeded: its user has left the
\* directory, and no later delete call names that user.
DeleteSucceededAt(k) ==
    /\ calls[k].op = "delete"
    /\ \A i \in 1..Len(directory) : directory[i].id /= calls[k].id
    /\ \A j \in (k + 1)..Len(calls) :
          ~(calls[j].op = "delete" /\ calls[j].id = calls[k].id)

\* C13: after a successful provider delete, delete_user_by_email pauses
\* before it returns, so the pause follows the delete call with no directory
\* call (list, delete or invite) in between; there is no pause when the user
\* is not found or when the delete call raises.
C13_PauseRightAfterSuccessfulDelete ==
    \A k \in 1..Len(calls) :
        /\ calls[k].op = "sleep" => k > 1 /\ DeleteSucceededAt(k - 1)
        /\ DeleteSucceededAt(k) =>
              IF k = Len(calls) THEN pc = "delete_sleep"
              ELSE calls[k + 1].op = "sleep"

C13_Witness ==
    /\ flow = "delete_then_invite"
    /\ delete_result.message = "deleted"
    /\ \E k \in 1..Len(calls) :
          /\ k + 2 = Len(calls)
          /\ calls[k].op = "delete"
          /\ calls[k + 1].op = "sleep"
          /\ calls[k + 2].op = "invite"

\* C15: when the list call fails, delete_user_by_email issues no delete call
\* and returns the result it returns for an absent user (success = false, not
\* found); delete-then-invite then goes on to the invite although the user
\* may still be in the directory.
C15_ListFailureReadsAsNotFound ==
    /\ (flow \in DeleteFlows /\ list_out = "raise") =>
          /\ delete_result = [success |-> FALSE, message |-> "not_found"]
          /\ DeleteCalls = <<>>
          /\ (DeleteThenInviteRuns /\ pc = "done") => attempts = 1
    /\ (flow = "bulk_delete_then_invite" /\ pc = "bulk_delete_append"
          /\ list_out = "raise") =>
          /\ delete_result = [success |-> FALSE, message |-> "not_found"]
          /\ calls[Len(calls)].op = "list"

C15_Witness ==
    /\ flow = "delete_then_invite"
    /\ list_out = "raise"
    /\ FirstMatch(directory, email) /= 0
    /\ delete_result.message = "not_found"
    /\ pc = "done"
    /\ Len(InviteCalls) = 1

\* The items of email_list bulk_invite calls send_invitation for.
Invitable(list) == SelectSeq(list, LAMBDA item : ShouldProcess(ItemEmail(item)))

\* C16: in bulk delete-then-invite the delete attempt for every item of the
\* list has completed before the first invite is issued, and bulk_invite then
\* runs over the full list whatever the delete attempts returned.
C16_AllDeletesBeforeFirstInvite ==
    (flow = "bulk_delete_then_invite" /\ email_list /= <<>>) =>
        /\ \A k \in 1..Len(calls) :
              calls[k].op = "invite" =>
                  \A j \in k..Len(calls) : calls[j].op = "invite"
        /\ (InviteCalls /= <<>> \/ pc \in {"bulk_enter", "bulk_loop", "done"}) =>
              /\ Len(delete_results) = Len(email_list)
              /\ Len(ListCalls) = Len(email_list)
              /\ \A i \in 1..Len(email_list) :
                    /\ delete_results[i].email = email_list[i].email
                    /\ delete_results[i].message \in {"deleted", "not_found", "delete_error"}
        /\ pc = "done" =>
              /\ bulk_result.hasSummary
              /\ Len(InviteCalls) = Len(Invitable(email_list))
              /\ \A i \in 1..Len(InviteCalls) :
                    InviteCalls[i].email = ItemEmail(Invitable(email_list)[i])

C16_Witness ==
    /\ flow = "bulk_delete_then_invite"
    /\ pc = "done"
    /\ Len(email_list) = 2
    /\ delete_results[1].success
    /\ delete_results[2].message = "delete_error"
    /\ Len(InviteCalls) = 2

====
